---- MODULE Spec2Model ----
(***************************************************************************)
(* Model of gpio-hd44780-driver (src/hd44780-driver.js): an HD44780 LCD    *)
(* driver that talks to the controller in 4-bit mode through the rpio      *)
(* GPIO library.  The state is the driver instance, the GPIO pins, the     *)
(* record of rpio calls made by the most recent public operation, and the  *)
(* interface state of the controller wired to the configured pins.         *)
(***************************************************************************)
EXTENDS Integers, Sequences, FiniteSets

VARIABLES config,   \* the object handed to the constructor
          phase,    \* "new" | "ready" | "failed" (the constructor threw)
          driver,   \* <<>> until the constructor returns, then <<instance>>
          pins,     \* pin id -> [mode, level] as left by rpio.open / rpio.write
          ctl,      \* HD44780 interface state: [mode, hi, last, ac]
          lastOp,   \* the most recent public operation, its arguments and, for
                    \* the constructor, the controller state it found
          calls,    \* the _write8Bits invocations made by that operation
          log,      \* the rpio calls made by that operation, in order
          threw     \* whether that operation ended by an exception

vars == <<config, phase, driver, pins, ctl, lastOp, calls, log, threw>>

----------------------------------------------------------------------------
(* Bounds of the model.                                                    *)

\* longest text handed to print, beyond the fixed example texts
MaxLen == 2
\* setCursor columns 0..MaxCol, beyond the fixed example columns
MaxCol == 1
\* setCursor rows -1..MaxRow
MaxRow == 4

----------------------------------------------------------------------------
(* Constant tables, src/hd44780-driver.js lines 3-45.                      *)

CLEARDISPLAY == 1
HOME == 2
ENTRYMODESET == 4
DISPLAYCONTROL == 8
CURSORSHIFT == 16
FUNCTIONSET == 32
SETCGRAMADDR == 64
SETDDRAMADDR == 128

ENTRYLEFT == 2
ENTRYSHIFTDECREMENT == 0

DISPLAYON == 4
CURSOROFF == 0
BLINKOFF == 0

FOURBITMODE == 0
TWOLINE == 8
FIVEBYEIGHTDOTS == 0

ROWOFFSETS == <<0, 64, 20, 84>>

\* rpio.LOW / rpio.HIGH
LOW == 0
HIGH == 1

----------------------------------------------------------------------------
(* JavaScript values and arithmetic used by the driver.                    *)

\* the value of an absent property or of an out-of-range array read
Undef == "undefined"

\* a JS number is modelled as [nan |-> BOOLEAN, n |-> Int]
Num(n) == [nan |-> FALSE, n |-> n]
NaN == [nan |-> TRUE, n |-> 0]

\* variant: the table in the physical order of the rows
RowOffsetAtPhysical(r) == IF r \in 0..3 THEN Num(<<0, 20, 64, 84>>[r + 1]) ELSE NaN

\* ROWOFFSETS[r] for any integer r: undefined outside 0..3
RowOffsetAt(r) == IF r \in 0..3 THEN Num(ROWOFFSETS[r + 1]) ELSE NaN

\* col + x, where x may be undefined (number + undefined = NaN)
JsAdd(col, x) == IF x.nan THEN NaN ELSE Num(col + x.n)

\* ToInt32 for the values that occur (NaN -> 0; small non-negative integers)
ToInt32(x) == IF x.nan THEN 0 ELSE x.n

RECURSIVE BitOr(_, _)
\* a | b for non-negative integers
BitOr(a, b) ==
    IF a = 0 THEN b
    ELSE IF b = 0 THEN a
    ELSE (IF (a % 2 = 1) \/ (b % 2 = 1) THEN 1 ELSE 0) + 2 * BitOr(a \div 2, b \div 2)

RECURSIVE Pow2(_)
Pow2(n) == IF n = 0 THEN 1 ELSE 2 * Pow2(n - 1)

\* (value >> n) & 1 for a non-negative value
BitAt(value, n) == (value \div Pow2(n)) % 2

\* pinsData[i] for a 0-based index: undefined past the end of the array
PinAt(pinsData, i) == IF i + 1 <= Len(pinsData) THEN pinsData[i + 1] ELSE Undef

\* char.charCodeAt(0) for one element of Array.from(str): the element is a
\* code point; above 0xFFFF its first UTF-16 unit is the high surrogate
CharCodeAt0(cp) ==
    IF cp < 65536 THEN cp ELSE 55296 + ((cp - 65536) \div 1024)

----------------------------------------------------------------------------
(* rpio calls.  One entry of the log is one call made on the library.      *)

RpioOpen(pin) == [op |-> "open", pin |-> pin, v |-> LOW]
RpioWrite(pin, level) == [op |-> "write", pin |-> pin, v |-> level]
RpioUsleep(us) == [op |-> "usleep", pin |-> "-", v |-> us]

----------------------------------------------------------------------------
(* The driver's methods as the sequences of rpio calls they make.          *)

\* variant: the pulse starts at the rising edge, without forcing LOW first
_pulseEnableNoLeadingLow(this) ==
    << RpioWrite(this.pinEnable, HIGH), RpioUsleep(1),
       RpioWrite(this.pinEnable, LOW), RpioUsleep(1) >>

\* variant: the pulse never brings the line back down
_pulseEnableLeavesHigh(this) ==
    << RpioWrite(this.pinEnable, LOW), RpioUsleep(1),
       RpioWrite(this.pinEnable, HIGH), RpioUsleep(1) >>

\* _pulseEnable(): LOW, 1us, HIGH, 1us, LOW, 1us on the enable pin
_pulseEnable(this) ==
    << RpioWrite(this.pinEnable, LOW), RpioUsleep(1),
       RpioWrite(this.pinEnable, HIGH), RpioUsleep(1),
       RpioWrite(this.pinEnable, LOW), RpioUsleep(1) >>

\* the for loop writing four bits of value, starting at bit `shift`
WriteNibble(this, value, shift) ==
    [i \in 1..4 |-> RpioWrite(PinAt(this.pinsData, i - 1), BitAt(value, (i - 1) + shift))]

\* variant: the low nibble sent before the high nibble
_write8BitsLowFirst(this, value, registerSelect, writeWait, initWait) ==
    << RpioUsleep(writeWait) >>
    \o << IF registerSelect THEN RpioWrite(this.pinRs, HIGH)
                            ELSE RpioWrite(this.pinRs, LOW) >>
    \o WriteNibble(this, value, 0)
    \o _pulseEnable(this)
    \o (IF initWait # 0 THEN << RpioUsleep(initWait) >> ELSE << >>)
    \o WriteNibble(this, value, 4)
    \o _pulseEnable(this)

\* variant: register-select set after the high nibble is on the data pins
_write8BitsRsAfterData(this, value, registerSelect, writeWait, initWait) ==
    << RpioUsleep(writeWait) >>
    \o WriteNibble(this, value, 4)
    \o << IF registerSelect THEN RpioWrite(this.pinRs, HIGH)
                            ELSE RpioWrite(this.pinRs, LOW) >>
    \o _pulseEnable(this)
    \o (IF initWait # 0 THEN << RpioUsleep(initWait) >> ELSE << >>)
    \o WriteNibble(this, value, 0)
    \o _pulseEnable(this)

\* _write8Bits(value, registerSelect, writeWait, initWait)
_write8Bits(this, value, registerSelect, writeWait, initWait) ==
    << RpioUsleep(writeWait) >>
    \o << IF registerSelect THEN RpioWrite(this.pinRs, HIGH)
                            ELSE RpioWrite(this.pinRs, LOW) >>
    \o WriteNibble(this, value, 4)
    \o _pulseEnable(this)
    \o (IF initWait # 0 THEN << RpioUsleep(initWait) >> ELSE << >>)
    \o WriteNibble(this, value, 0)
    \o _pulseEnable(this)

----------------------------------------------------------------------------
(* Public methods as the sequence of steps they take.  A step is either a  *)
(* direct rpio.open or one _write8Bits invocation with its four arguments  *)
(* (defaults filled in: registerSelect=false, writeWait=50, initWait=0).   *)

OpenStep(pin) ==
    [k |-> "open", pin |-> pin, value |-> 0, registerSelect |-> FALSE,
     writeWait |-> 0, initWait |-> 0]

W8(value, registerSelect, writeWait, initWait) ==
    [k |-> "w8", pin |-> "-", value |-> value, registerSelect |-> registerSelect,
     writeWait |-> writeWait, initWait |-> initWait]

\* variant: the 50 us spent between the nibbles instead of before the write
W8DefaultWaitBetween(value) == W8(value, FALSE, 1, 50)

\* this._write8Bits(value) with every default
W8Default(value) == W8(value, FALSE, 50, 0)

\* variant: return-home sent in place of clear-display
clearHome(this) == << W8Default(HOME) >>

\* clear()
clear(this) == << W8Default(CLEARDISPLAY) >>

\* variant: the comparison off by one
ClampedRowOffByOne(this, row) == IF row > this.lcdRows THEN this.lcdRows - 1 ELSE row

\* variant: a row past the last one wraps to the first row
ClampedRowWrap(this, row) == IF row > this.lcdRows - 1 THEN 0 ELSE row

\* setCursor, line 124: const r = row > this.lcdRows - 1 ? this.lcdRows - 1 : row
ClampedRow(this, row) == IF row > this.lcdRows - 1 THEN this.lcdRows - 1 ELSE row

\* variant: the row used as given
setCursorNoClamp(this, col, row) ==
    << W8Default(BitOr(SETDDRAMADDR, ToInt32(JsAdd(col, RowOffsetAt(row))))) >>

\* variant: the opcode added to the address instead of or-ed with it
setCursorPlus(this, col, row) ==
    << W8Default(SETDDRAMADDR + ToInt32(JsAdd(col, RowOffsetAt(ClampedRow(this, row))))) >>

\* setCursor(col, row)
setCursor(this, col, row) ==
    << W8Default(BitOr(SETDDRAMADDR,
                       ToInt32(JsAdd(col, RowOffsetAt(ClampedRow(this, row)))))) >>

RECURSIVE PrintFrom(_, _, _, _)
\* the forEach of print, from element i on, with the local counter `row`
PrintFrom(this, str, i, row) ==
    IF i > Len(str) THEN << >>
    ELSE IF str[i] = 10
         THEN setCursor(this, 0, row + 1) \o PrintFrom(this, str, i + 1, row + 1)
         ELSE << W8(CharCodeAt0(str[i]), TRUE, 50, 0) >>
              \o PrintFrom(this, str, i + 1, row)

\* variant: the row counter starting at 1
printRowFromOne(this, str) == PrintFrom(this, str, 1, 1)

\* print(str): var row = 0, then the forEach
print(this, str) == PrintFrom(this, str, 1, 0)

\* the fields the constructor copies from config
NewInstance(cfg) ==
    [pinRs |-> cfg.pinRs, pinEnable |-> cfg.pinEnable, pinsData |-> cfg.pinsData,
     lcdColumns |-> cfg.lcdColumns, lcdRows |-> cfg.lcdRows]

\* variant: display control and function set exchanged
constructorSwapped(this) ==
    << OpenStep(this.pinRs), OpenStep(this.pinEnable) >>
    \o [i \in 1..Len(this.pinsData) |-> OpenStep(this.pinsData[i])]
    \o << W8(51, FALSE, 1, 4100), W8(50, FALSE, 1, 100) >>
    \o << W8Default(BitOr(BitOr(BitOr(FUNCTIONSET, FOURBITMODE), TWOLINE), FIVEBYEIGHTDOTS)),
          W8Default(BitOr(BitOr(BitOr(DISPLAYCONTROL, DISPLAYON), CURSOROFF), BLINKOFF)),
          W8Default(BitOr(BitOr(ENTRYMODESET, ENTRYLEFT), ENTRYSHIFTDECREMENT)) >>
    \o clear(this)

\* variant: the final clear() left out
constructorNoClear(this) ==
    << OpenStep(this.pinRs), OpenStep(this.pinEnable) >>
    \o [i \in 1..Len(this.pinsData) |-> OpenStep(this.pinsData[i])]
    \o << W8(51, FALSE, 1, 4100), W8(50, FALSE, 1, 100) >>
    \o << W8Default(BitOr(BitOr(BitOr(DISPLAYCONTROL, DISPLAYON), CURSOROFF), BLINKOFF)),
          W8Default(BitOr(BitOr(BitOr(FUNCTIONSET, FOURBITMODE), TWOLINE), FIVEBYEIGHTDOTS)),
          W8Default(BitOr(BitOr(ENTRYMODESET, ENTRYLEFT), ENTRYSHIFTDECREMENT)) >>

\* variant: the first wake-up write (0x33) left out
constructorNoWakeup(this) ==
    << OpenStep(this.pinRs), OpenStep(this.pinEnable) >>
    \o [i \in 1..Len(this.pinsData) |-> OpenStep(this.pinsData[i])]
    \o << W8(50, FALSE, 1, 100) >>
    \o << W8Default(BitOr(BitOr(BitOr(DISPLAYCONTROL, DISPLAYON), CURSOROFF), BLINKOFF)),
          W8Default(BitOr(BitOr(BitOr(FUNCTIONSET, FOURBITMODE), TWOLINE), FIVEBYEIGHTDOTS)),
          W8Default(BitOr(BitOr(ENTRYMODESET, ENTRYLEFT), ENTRYSHIFTDECREMENT)) >>
    \o clear(this)

\* variant: the data pins opened only after the reset sequence
constructorLateOpen(this) ==
    << OpenStep(this.pinRs), OpenStep(this.pinEnable) >>
    \o << W8(51, FALSE, 1, 4100), W8(50, FALSE, 1, 100) >>
    \o [i \in 1..Len(this.pinsData) |-> OpenStep(this.pinsData[i])]
    \o << W8Default(BitOr(BitOr(BitOr(DISPLAYCONTROL, DISPLAYON), CURSOROFF), BLINKOFF)),
          W8Default(BitOr(BitOr(BitOr(FUNCTIONSET, FOURBITMODE), TWOLINE), FIVEBYEIGHTDOTS)),
          W8Default(BitOr(BitOr(ENTRYMODESET, ENTRYLEFT), ENTRYSHIFTDECREMENT)) >>
    \o clear(this)

\* variant: the enable pin opened before register-select
constructorEnableFirst(this) ==
    << OpenStep(this.pinEnable), OpenStep(this.pinRs) >>
    \o [i \in 1..Len(this.pinsData) |-> OpenStep(this.pinsData[i])]
    \o << W8(51, FALSE, 1, 4100), W8(50, FALSE, 1, 100) >>
    \o << W8Default(BitOr(BitOr(BitOr(DISPLAYCONTROL, DISPLAYON), CURSOROFF), BLINKOFF)),
          W8Default(BitOr(BitOr(BitOr(FUNCTIONSET, FOURBITMODE), TWOLINE), FIVEBYEIGHTDOTS)),
          W8Default(BitOr(BitOr(ENTRYMODESET, ENTRYLEFT), ENTRYSHIFTDECREMENT)) >>
    \o clear(this)

\* constructor(config), after the field copies
constructor(this) ==
    << OpenStep(this.pinRs), OpenStep(this.pinEnable) >>
    \o [i \in 1..Len(this.pinsData) |-> OpenStep(this.pinsData[i])]
    \o << W8(51, FALSE, 1, 4100), W8(50, FALSE, 1, 100) >>
    \o << W8Default(BitOr(BitOr(BitOr(DISPLAYCONTROL, DISPLAYON), CURSOROFF), BLINKOFF)),
          W8Default(BitOr(BitOr(BitOr(FUNCTIONSET, FOURBITMODE), TWOLINE), FIVEBYEIGHTDOTS)),
          W8Default(BitOr(BitOr(ENTRYMODESET, ENTRYLEFT), ENTRYSHIFTDECREMENT)) >>
    \o clear(this)

----------------------------------------------------------------------------
(* Execution of the steps against rpio.  rpio rejects an undefined pin, and *)
(* rpio.open also fails on a pin the platform refuses (the set `bad`); the *)
(* exception propagates and ends the operation at that call.                *)

Throws(ev, bad) ==
    \/ ev.op \in {"open", "write"} /\ ev.pin = Undef
    \/ ev.op = "open" /\ ev.pin \in bad

\* the rpio calls one step makes
StepEvents(this, st) ==
    IF st.k = "open" THEN << RpioOpen(st.pin) >>
    ELSE _write8Bits(this, st.value, st.registerSelect, st.writeWait, st.initWait)

\* index of the first call of evs that throws, 0 when none does
FirstThrow(evs, bad) ==
    LET T == {j \in 1..Len(evs) : Throws(evs[j], bad)}
    IN  IF T = {} THEN 0 ELSE CHOOSE j \in T : \A m \in T : j <= m

CallOf(st) ==
    [value |-> st.value, registerSelect |-> st.registerSelect,
     writeWait |-> st.writeWait, initWait |-> st.initWait]

\* the outcome of step st after the outcome acc of the steps before it
\* (evs is bound once, to the calls the step makes)
ExecStep(this, st, bad, acc) ==
    CHOOSE out \in
        {LET t == FirstThrow(evs, bad)
             cs == IF st.k = "w8" THEN Append(acc.calls, CallOf(st)) ELSE acc.calls
         IN  IF t = 0
             THEN [log |-> acc.log \o evs, calls |-> cs, threw |-> FALSE]
             ELSE [log |-> acc.log \o SubSeq(evs, 1, t - 1), calls |-> cs, threw |-> TRUE]
         : evs \in {StepEvents(this, st)}} : TRUE

RECURSIVE ExecFrom(_, _, _, _, _)
\* run steps[i..]; an exception ends the run
ExecFrom(this, steps, i, bad, acc) ==
    IF i > Len(steps) \/ acc.threw THEN acc
    ELSE CHOOSE out \in
             {ExecFrom(this, steps, i + 1, bad, nxt) : nxt \in {ExecStep(this, steps[i], bad, acc)}}
             : TRUE

\* the outcome of running `steps`: the rpio calls that completed, the
\* _write8Bits invocations entered, and whether an exception ended the run
Exec(this, steps, bad) ==
    ExecFrom(this, steps, 1, bad, [log |-> << >>, calls |-> << >>, threw |-> FALSE])

----------------------------------------------------------------------------
(* The GPIO pins and the HD44780 wired to them.  The controller samples    *)
(* register-select and DB4..DB7 on the falling edge of the enable line.    *)

\* a pin's level, LOW while it has not been opened
LevelOf(ps, pin) == IF pin \in DOMAIN ps THEN ps[pin].level ELSE LOW

\* the effect of one completed rpio call on the pins
ApplyEvent(ps, ev) ==
    IF ev.op = "open" /\ ev.pin \in DOMAIN ps
    THEN [ps EXCEPT ![ev.pin] = [mode |-> "out", level |-> ev.v]]
    ELSE IF ev.op = "write" /\ ev.pin \in DOMAIN ps
    THEN [ps EXCEPT ![ev.pin] = [mode |-> ps[ev.pin].mode, level |-> ev.v]]
    ELSE ps

\* the address counter is tracked while the last thing that moved it was an
\* instruction; after a data write it is "somewhere"
AcMoved == -1

\* the controller executes one byte (HD44780 instruction set); only the
\* interface mode, the address counter and the last byte are tracked
Execute(c, rs, byte) ==
    LET l == [rs |-> rs, value |-> byte]
    IN  IF rs = HIGH
        THEN [mode |-> c.mode, hi |-> 0, last |-> l, ac |-> AcMoved]
        ELSE IF byte >= 128
        THEN [mode |-> c.mode, hi |-> 0, last |-> l, ac |-> byte - 128]
        ELSE IF byte >= 64
        THEN [mode |-> c.mode, hi |-> 0, last |-> l, ac |-> c.ac]
        ELSE IF byte >= 32
        THEN [mode |-> IF BitAt(byte, 4) = 1 THEN "8bit" ELSE "4hi",
              hi |-> 0, last |-> l, ac |-> c.ac]
        ELSE IF byte \in {1, 2, 3}
        THEN [mode |-> c.mode, hi |-> 0, last |-> l, ac |-> 0]
        ELSE [mode |-> c.mode, hi |-> 0, last |-> l, ac |-> c.ac]

\* the controller latches one nibble; in 8-bit mode DB0..DB3 are not wired
\* and read as anything
Latch(c, rs, nib) ==
    IF c.mode = "8bit"
    THEN {Execute(c, rs, nib * 16 + low) : low \in 0..15}
    ELSE IF c.mode = "4hi"
    THEN {[mode |-> "4lo", hi |-> nib, last |-> c.last, ac |-> c.ac]}
    ELSE {Execute([mode |-> "4hi", hi |-> 0, last |-> c.last, ac |-> c.ac],
                  rs, c.hi * 16 + nib)}

\* the nibble on DB4..DB7, wired to pinsData[0..3]
BusNibble(cfg, ps) ==
    LevelOf(ps, PinAt(cfg.pinsData, 0)) + 2 * LevelOf(ps, PinAt(cfg.pinsData, 1))
    + 4 * LevelOf(ps, PinAt(cfg.pinsData, 2)) + 8 * LevelOf(ps, PinAt(cfg.pinsData, 3))

\* pins and possible controller states after one more rpio call: a write of
\* LOW to the enable pin while it is HIGH is the falling edge that latches
DriveOne(cfg, ev, w) ==
    LET falling == /\ ev.op = "write" /\ ev.pin = cfg.pinEnable /\ ev.v = LOW
                   /\ LevelOf(w.pins, cfg.pinEnable) = HIGH
        ps == ApplyEvent(w.pins, ev)
    IN  [pins |-> ps,
         ctls |-> IF falling
                  THEN UNION {Latch(c, LevelOf(ps, cfg.pinRs), BusNibble(cfg, ps)) : c \in w.ctls}
                  ELSE w.ctls]

RECURSIVE DriveRange(_, _, _, _, _)
\* pins and possible controller states after the calls lg[lo..hi], in order
\* (the outcome of the first half is bound once, then the second half runs)
DriveRange(cfg, lg, lo, hi, w) ==
    IF lo > hi THEN w
    ELSE IF lo = hi THEN DriveOne(cfg, lg[lo], w)
    ELSE CHOOSE out \in
             {DriveRange(cfg, lg, ((lo + hi) \div 2) + 1, hi, left)
              : left \in {DriveRange(cfg, lg, lo, (lo + hi) \div 2, w)}} : TRUE

Drive(cfg, lg, w) == DriveRange(cfg, lg, 1, Len(lg), w)

----------------------------------------------------------------------------
(* Inputs.                                                                 *)

GoodPins == <<"11", "12", "15", "16">>
AllPins == {"18", "22", "11", "12", "15", "16", "7"}

Cfg(rs, en, data, cols, rows) ==
    [pinRs |-> rs, pinEnable |-> en, pinsData |-> data, lcdColumns |-> cols, lcdRows |-> rows]

\* 4 distinct data pins, rows in 1..4, columns >= 1, every pin present
ValidConfig(cfg) ==
    /\ cfg.pinRs # Undef /\ cfg.pinEnable # Undef
    /\ Len(cfg.pinsData) = 4
    /\ \A i \in 1..4 : cfg.pinsData[i] # Undef
    /\ Cardinality({cfg.pinsData[i] : i \in 1..4} \cup {cfg.pinRs, cfg.pinEnable}) = 6
    /\ cfg.lcdRows \in 1..4
    /\ cfg.lcdColumns >= 1

Configs ==
    {Cfg("18", "22", GoodPins, 16, rows) : rows \in 1..4}
    \cup {Cfg("18", "22", GoodPins, 16, 0),
          Cfg("18", "22", GoodPins, 0, 2),
          Cfg(Undef, "22", GoodPins, 16, 2),
          Cfg("18", Undef, GoodPins, 16, 2),
          Cfg("18", "22", <<"11", "12", "15">>, 16, 2),
          Cfg("18", "22", <<"11", "12", "15", "16", "7">>, 16, 2)}

\* code points texts are built from: 'A', newline, U+0142
Alphabet == {65, 10, 322}

RECURSIVE StringsUpTo(_)
StringsUpTo(n) ==
    IF n = 0 THEN {<< >>}
    ELSE LET S == StringsUpTo(n - 1)
         IN  S \cup {Append(s, c) : s \in {t \in S : Len(t) = n - 1}, c \in Alphabet}

\* every short text, and "AB\nCD", "A\nB\nC", "\n\n\n\nA", U+1F600
Texts ==
    StringsUpTo(MaxLen)
    \cup {<<65, 66, 10, 67, 68>>, <<65, 10, 66, 10, 67>>, <<10, 10, 10, 10, 65>>,
          <<128512>>}

Cols == 0..MaxCol \cup {15, 44, 200, 300}
Rows == -1..MaxRow

\* sets of pins the platform may refuse to open: none, or any one pin
BadSets == {{}} \cup {{p} : p \in AllPins}

InitCtls ==
    {[mode |-> m, hi |-> 0, last |-> [rs |-> LOW, value |-> 0], ac |-> a] :
        m \in {"8bit", "4hi"}, a \in {AcMoved}}
    \cup {[mode |-> "4lo", hi |-> h, last |-> [rs |-> LOW, value |-> 0], ac |-> a] :
        h \in 0..15, a \in {AcMoved}}

\* placeholder for the controller state found, for operations after construction
NotRecorded == [mode |-> "-", hi |-> 0, last |-> [rs |-> LOW, value |-> 0], ac |-> AcMoved]

Op(name, text, col, row, bad, found) ==
    [name |-> name, text |-> text, col |-> col, row |-> row, bad |-> bad, found |-> found]

----------------------------------------------------------------------------
(* The state machine.                                                      *)

Init ==
    /\ config \in Configs
    /\ phase = "new"
    /\ driver = << >>
    /\ pins = [p \in AllPins |-> [mode |-> "closed", level |-> LOW]]
    /\ ctl \in InitCtls
    /\ lastOp = Op("none", << >>, 0, 0, {}, NotRecorded)
    /\ calls = << >>
    /\ log = << >>
    /\ threw = FALSE

\* the common effect of running `steps` on instance `this` (each outcome is
\* bound once)
Run(this, steps, bad) ==
    \E r \in {Exec(this, steps, bad)} :
    \E w \in {Drive(config, r.log, [pins |-> pins, ctls |-> {ctl}])} :
        /\ log' = r.log
        /\ calls' = r.calls
        /\ threw' = r.threw
        /\ pins' = w.pins
        /\ ctl' \in w.ctls

\* new Driver(config), with `bad` the pins the platform refuses to open
CallCreate(bad) ==
    /\ phase = "new"
    /\ LET this == NewInstance(config)
       IN  /\ Run(this, constructor(this), bad)
           /\ phase' = IF threw' THEN "failed" ELSE "ready"
           /\ driver' = IF threw' THEN << >> ELSE << this >>
    /\ lastOp' = Op("create", << >>, 0, 0, bad, ctl)
    /\ UNCHANGED config

CallClear ==
    /\ phase = "ready"
    /\ Run(driver[1], clear(driver[1]), {})
    /\ lastOp' = Op("clear", << >>, 0, 0, {}, NotRecorded)
    /\ UNCHANGED <<config, phase, driver>>

\* variant: the row counter kept across calls, so that a print resumes at
\* the row where the print before it stopped
CallPrintKeepsRow(str) ==
    /\ phase = "ready"
    /\ Run(driver[1],
           PrintFrom(driver[1], str, 1,
                     Cardinality({j \in 1..Len(lastOp.text) : lastOp.text[j] = 10})),
           {})
    /\ lastOp' = Op("print", str, 0, 0, {}, NotRecorded)
    /\ UNCHANGED <<config, phase, driver>>

CallPrint(str) ==
    /\ phase = "ready"
    /\ Run(driver[1], print(driver[1], str), {})
    /\ lastOp' = Op("print", str, 0, 0, {}, NotRecorded)
    /\ UNCHANGED <<config, phase, driver>>

CallSetCursor(col, row) ==
    /\ phase = "ready"
    /\ Run(driver[1], setCursor(driver[1], col, row), {})
    /\ lastOp' = Op("setCursor", << >>, col, row, {}, NotRecorded)
    /\ UNCHANGED <<config, phase, driver>>

Next ==
    \/ \E bad \in BadSets : CallCreate(bad)
    \/ CallClear
    \/ \E str \in Texts : CallPrint(str)
    \/ \E col \in Cols, row \in Rows : CallSetCursor(col, row)

Spec == Init /\ [][Next]_vars

----------------------------------------------------------------------------
(* What an observer of the pins sees.                                      *)

\* the writes of lg to the data pins and to the enable pin, in order
BusWrites(cfg, lg) ==
    LET OnBus(e) == /\ e.op = "write"
                    /\ \/ e.pin = cfg.pinEnable
                       \/ \E i \in 1..Len(cfg.pinsData) : e.pin = cfg.pinsData[i]
    IN  SelectSeq(lg, OnBus)

\* the writes of lg to the register-select pin, in order
RsWrites(cfg, lg) ==
    LET OnRs(e) == e.op = "write" /\ e.pin = cfg.pinRs
    IN  SelectSeq(lg, OnRs)

\* one nibble phase: data pin i carries bit i of the nibble, then one pulse
NibblePhase(cfg, nib) ==
    [i \in 1..4 |-> [op |-> "write", pin |-> cfg.pinsData[i], v |-> (nib \div Pow2(i - 1)) % 2]]
    \o << [op |-> "write", pin |-> cfg.pinEnable, v |-> 0],
          [op |-> "write", pin |-> cfg.pinEnable, v |-> 1],
          [op |-> "write", pin |-> cfg.pinEnable, v |-> 0] >>

\* the bus writes of one 8-bit transfer of v: bits 4..7, pulse, bits 0..3, pulse
TransferPattern(cfg, v) ==
    NibblePhase(cfg, (v \div 16) % 16) \o NibblePhase(cfg, v % 16)

RECURSIVE PatternsFrom(_, _, _)
\* the bus writes of the transfers of the bytes vs[i..], back to back
PatternsFrom(cfg, vs, i) ==
    IF i > Len(vs) THEN << >>
    ELSE TransferPattern(cfg, vs[i]) \o PatternsFrom(cfg, vs, i + 1)

\* the constructor ran to its end on a valid configuration
Created == lastOp.name = "create" /\ ValidConfig(config) /\ ~threw

\* the bytes of the calls made by the last operation
CallValues == [i \in 1..Len(calls) |-> calls[i].value]

----------------------------------------------------------------------------
(* Construction.                                                           *)

\* C1: construction with a valid configuration issues the 8-bit transfers
\* 0x33, 0x32, 0x0C, 0x28, 0x06, 0x01 in this order and no other, all with
\* register-select low; the pins carry exactly these six transfers.
C1_InitSequence ==
    Created =>
        /\ CallValues = <<51, 50, 12, 40, 6, 1>>
        /\ \A i \in 1..Len(calls) : ~calls[i].registerSelect
        /\ BusWrites(config, log) = PatternsFrom(config, <<51, 50, 12, 40, 6, 1>>, 1)
        /\ RsWrites(config, log) = [i \in 1..6 |-> [op |-> "write", pin |-> config.pinRs, v |-> 0]]

C1_Witness ==
    /\ Created /\ phase = "ready"
    /\ Len(calls) = 6 /\ calls[1].value = 51 /\ calls[6].value = 1

\* C2 as stated: construction issues 5 composed instructions plus the 2 raw
\* init writes, 7 transfers in all.
C2_SevenTransfers ==
    Created =>
        /\ Len(calls) = 7
        /\ Cardinality({i \in 1..Len(calls) : calls[i].initWait # 0}) = 2
        /\ Cardinality({i \in 1..Len(calls) : calls[i].initWait = 0}) = 5

\* C2 amended: construction issues exactly 4 composed instructions (display
\* control, function set, entry mode, clear) plus the 2 raw init writes: 6
\* eight-bit transfers, 12 enable pulses, before it returns.
C2_SixTransfers ==
    Created =>
        /\ Len(calls) = 6
        /\ Cardinality({i \in 1..Len(calls) : calls[i].initWait # 0}) = 2
        /\ Cardinality({i \in 1..Len(calls) : calls[i].initWait = 0}) = 4
        /\ Len(RsWrites(config, log)) = 6
        /\ Cardinality({j \in 1..Len(log) :
                           log[j] = [op |-> "write", pin |-> config.pinEnable, v |-> 1]}) = 12

C2_Witness ==
    /\ Created /\ config.lcdRows = 4
    /\ Len(calls) = 6 /\ calls[2].initWait = 100 /\ calls[3].initWait = 0

\* C3: after a successful construction the controller is in 4-bit mode
\* expecting a high nibble and the last thing it executed is clear-display
\* (address counter 0), whatever its interface state was at power-on: 8-bit,
\* 4-bit expecting a high nibble, or 4-bit expecting a low nibble.
C3_KnownState ==
    Created =>
        /\ ctl.mode = "4hi"
        /\ ctl.last = [rs |-> 0, value |-> 1]
        /\ ctl.ac = 0

\* the hardest start: 4-bit mode with a half-received byte pending
C3_Witness ==
    /\ Created /\ lastOp.found.mode = "4lo" /\ lastOp.found.hi = 3
    /\ ctl.mode = "4hi" /\ ctl.last.value = 1

C3_WitnessEightBit == Created /\ lastOp.found.mode = "8bit" /\ ctl.mode = "4hi"

C3_WitnessFourBit == Created /\ lastOp.found.mode = "4hi" /\ ctl.mode = "4hi"

\* the pins the constructor configures
OpenedPins(cfg) == {cfg.pinRs, cfg.pinEnable} \cup {cfg.pinsData[i] : i \in 1..Len(cfg.pinsData)}

\* rpio.open fails for one of them
OpenFails == \E p \in OpenedPins(config) : p = Undef \/ p \in lastOp.bad

\* C4: when configuring one of the pins fails, construction aborts with the
\* error: no instance, no _write8Bits call, no pin write, no enable pulse.
C4_AbortOnOpenFailure ==
    (lastOp.name = "create" /\ OpenFails) =>
        /\ threw /\ phase = "failed" /\ driver = << >>
        /\ calls = << >>
        /\ \A j \in 1..Len(log) : log[j].op = "open"

\* the last data pin is refused after five pins were configured
C4_Witness ==
    /\ lastOp.name = "create" /\ ValidConfig(config) /\ lastOp.bad = {"16"}
    /\ phase = "failed" /\ Len(log) = 5

\* a field of the configuration is missing or malformed
Malformed(cfg) ==
    \/ cfg.pinRs = Undef \/ cfg.pinEnable = Undef
    \/ Len(cfg.pinsData) # 4
    \/ cfg.lcdRows <= 0 \/ cfg.lcdColumns <= 0

\* C5: a configuration with a missing or malformed field is rejected by the
\* constructor before any hardware write.
C5_MalformedRejected ==
    (lastOp.name = "create" /\ Malformed(config)) =>
        /\ threw /\ phase = "failed"
        /\ \A j \in 1..Len(log) : log[j].op # "write"

----------------------------------------------------------------------------
(* The 8-bit transfer.                                                     *)

\* C6: every 8-bit transfer of a value v is two nibble phases, high nibble
\* first: data pin i is driven with bit i+4 of v, one enable pulse, data pin
\* i is driven with bit i of v, one enable pulse; the operation's writes to
\* the data pins and the enable pin are exactly these, transfer by transfer.
C6_TwoNibblePhases ==
    (lastOp.name # "none" /\ ValidConfig(config) /\ ~threw) =>
        BusWrites(config, log) = PatternsFrom(config, CallValues, 1)

\* print("A"): 0x41 goes out as 0100 then 0001, DB4 first
C6_Witness ==
    /\ lastOp.name = "print" /\ lastOp.text = <<65>> /\ ValidConfig(config)
    /\ [j \in 1..14 |-> BusWrites(config, log)[j].v] = <<0, 0, 1, 0, 0, 1, 0, 1, 0, 0, 0, 0, 1, 0>>
    /\ [j \in 1..4 |-> BusWrites(config, log)[j].pin] = <<"11", "12", "15", "16">>

----------------------------------------------------------------------------
(* print.                                                                  *)

\* the number of newlines among text[1..i]
NewlinesUpTo(text, i) == Cardinality({j \in 1..i : text[j] = 10})

\* what element i of the text must produce: a data-mode transfer of its
\* character code, or for the k-th newline the trace of setCursor(0, k)
PrintSegment(this, text, i) ==
    IF text[i] = 10
    THEN Exec(this, setCursor(this, 0, NewlinesUpTo(text, i)), {}).log
    ELSE _write8Bits(this, CharCodeAt0(text[i]), TRUE, 50, 0)

RECURSIVE PrintSegmentsFrom(_, _, _)
PrintSegmentsFrom(this, text, i) ==
    IF i > Len(text) THEN << >>
    ELSE PrintSegment(this, text, i) \o PrintSegmentsFrom(this, text, i + 1)

\* C7: print(text) produces, for the characters of text in order, one
\* data-mode transfer of the character code per non-newline character and,
\* for the k-th newline of the call, exactly the trace of setCursor(0, k).
C7_PrintTrace ==
    lastOp.name = "print" =>
        /\ ~threw
        /\ log = PrintSegmentsFrom(driver[1], lastOp.text, 1)
        /\ Len(calls) = Len(lastOp.text)
        /\ \A i \in 1..Len(calls) : calls[i].registerSelect = (lastOp.text[i] # 10)

\* print("AB\nCD") on a display of at least two rows
C7_Witness ==
    /\ lastOp.name = "print" /\ lastOp.text = <<65, 66, 10, 67, 68>>
    /\ config.lcdRows >= 2
    /\ CallValues = <<65, 66, 192, 67, 68>>
    /\ [i \in 1..5 |-> calls[i].registerSelect] = <<TRUE, TRUE, FALSE, TRUE, TRUE>>

----------------------------------------------------------------------------
(* setCursor.                                                              *)

\* the rpio calls of setCursor(col, row) on the constructed instance
SetCursorTrace(col, row) == Exec(driver[1], setCursor(driver[1], col, row), {}).log

\* C8: setCursor(col, row) with row >= configuredRows makes exactly the
\* rpio calls of setCursor(col, configuredRows - 1), for configured row
\* counts 1..4.
C8_ClampEquivalence ==
    (lastOp.name = "setCursor" /\ config.lcdRows \in 1..4 /\ lastOp.row >= config.lcdRows) =>
        log = SetCursorTrace(lastOp.col, config.lcdRows - 1)

\* setCursor(1, 3) on a 3-row display goes to row 2: 0x80 | (1 + 0x14)
C8_Witness ==
    /\ lastOp.name = "setCursor" /\ config.lcdRows = 3
    /\ lastOp.row = 3 /\ lastOp.col = 1
    /\ CallValues = <<149>>

\* C9 as stated: for every integer row, negative ones included, the index
\* used for the row-offset lookup lies in [0, configuredRows - 1].
C9_IndexAlwaysInRange ==
    (lastOp.name = "setCursor" /\ config.lcdRows \in 1..4) =>
        ClampedRow(driver[1], lastOp.row) \in 0..(config.lcdRows - 1)

\* C9 amended: for every row >= 0 the index used for the lookup lies in
\* [0, configuredRows - 1], inside the 4-entry table; a negative row is used
\* as given, the lookup yields undefined and the address sent is 0.
C9_IndexInRangeForNonNegative ==
    (lastOp.name = "setCursor" /\ config.lcdRows \in 1..4) =>
        LET r == ClampedRow(driver[1], lastOp.row)
        IN  /\ lastOp.row >= 0 =>
                /\ r \in 0..(config.lcdRows - 1)
                /\ r + 1 \in DOMAIN ROWOFFSETS
                /\ CallValues = << BitOr(128, lastOp.col + ROWOFFSETS[r + 1]) >>
            /\ lastOp.row < 0 =>
                /\ r = lastOp.row
                /\ CallValues = <<128>>

\* setCursor(0, 4) on a 2-row display looks up index 1
C9_Witness ==
    /\ lastOp.name = "setCursor" /\ config.lcdRows = 2
    /\ lastOp.row = 4 /\ lastOp.col = 0
    /\ ClampedRow(driver[1], lastOp.row) = 1
    /\ CallValues = <<192>>

\* the negative row that refutes the claim as stated
C9_NegativeRowReached ==
    /\ lastOp.name = "setCursor" /\ config.lcdRows = 2 /\ lastOp.row = -1
    /\ CallValues = <<128>>

\* C10: for row in 0..configuredRows-1 and col >= 0 with col + offset < 128,
\* setCursor(col, row) issues exactly one command-mode transfer of
\* 0x80 | (col + offset), offsets 0x00, 0x40, 0x14, 0x54; col is not checked
\* against the configured column count.
C10_CursorAddress ==
    (/\ lastOp.name = "setCursor"
     /\ lastOp.row \in 0..(config.lcdRows - 1) /\ lastOp.row \in 0..3
     /\ lastOp.col >= 0
     /\ lastOp.col + <<0, 64, 20, 84>>[lastOp.row + 1] < 128) =>
        LET addr == lastOp.col + <<0, 64, 20, 84>>[lastOp.row + 1]
        IN  /\ calls = << [value |-> 128 + addr, registerSelect |-> FALSE,
                           writeWait |-> 50, initWait |-> 0] >>
            /\ BusWrites(config, log) = TransferPattern(config, 128 + addr)
            /\ RsWrites(config, log) = << [op |-> "write", pin |-> config.pinRs, v |-> 0] >>
            /\ ctl.last = [rs |-> 0, value |-> 128 + addr]
            /\ ctl.ac = addr

\* column 44 on a 16-column display, row 1: 0x80 | (44 + 0x40)
C10_Witness ==
    /\ lastOp.name = "setCursor" /\ config.lcdColumns = 16 /\ config.lcdRows = 2
    /\ lastOp.col = 44 /\ lastOp.row = 1
    /\ CallValues = <<236>>
    /\ ctl.ac = 108

----------------------------------------------------------------------------
(* clear.                                                                  *)

\* C11: clear() issues exactly one 8-bit transfer, in command mode
\* (register-select low), of the value 0x01 and makes no other call; the
\* controller executes clear-display, which puts its address counter at 0
\* (row 0, column 0).
C11_ClearOnce ==
    lastOp.name = "clear" =>
        /\ ~threw
        /\ calls = << [value |-> 1, registerSelect |-> FALSE,
                       writeWait |-> 50, initWait |-> 0] >>
        /\ \A j \in 1..Len(log) : log[j].op # "open"
        /\ BusWrites(config, log) = TransferPattern(config, 1)
        /\ RsWrites(config, log) = << [op |-> "write", pin |-> config.pinRs, v |-> 0] >>
        /\ ctl.last = [rs |-> 0, value |-> 1]
        /\ ctl.ac = 0

\* clear() on a 4-row display: 22 rpio calls, the controller back at 0
C11_Witness ==
    /\ lastOp.name = "clear" /\ config.lcdRows = 4
    /\ Len(log) = 22 /\ Len(RsWrites(config, log)) = 1
    /\ ctl.last.value = 1 /\ ctl.ac = 0

\* the sleeps requested by lg, in order, in microseconds
Sleeps(lg) ==
    LET IsSleep(e) == e.op = "usleep"
        sl == SelectSeq(lg, IsSleep)
    IN  [j \in 1..Len(sl) |-> sl[j].v]

RECURSIVE SumSeq(_, _)
\* the sum of q[i..]
SumSeq(q, i) == IF i > Len(q) THEN 0 ELSE q[i] + SumSeq(q, i + 1)

\* C12: clear() has a built-in delay of 100 milliseconds: the sleeps made
\* within one clear() call amount to at least 100000 microseconds.
C12_ClearDelay ==
    lastOp.name = "clear" => SumSeq(Sleeps(log), 1) >= 100000

----------------------------------------------------------------------------
(* print and excess newlines.                                              *)

\* the index in text of its k-th newline
NewlineIndex(text, k) ==
    CHOOSE i \in 1..Len(text) : text[i] = 10 /\ NewlinesUpTo(text, i) = k

\* C13: print never rejects or clamps excess newlines itself: the k-th
\* newline of a call makes the call of setCursor(0, k), also for
\* k >= configuredRows (print("A\nB\nC") on a 2-row display calls
\* setCursor(0, 2) for the third segment), and setCursor then puts the cursor
\* at column 0 of the last configured row: no wrap to row 0, no error.
C13_ExcessNewlines ==
    (lastOp.name = "print" /\ config.lcdRows \in 1..4) =>
        /\ ~threw
        /\ \A k \in 1..NewlinesUpTo(lastOp.text, Len(lastOp.text)) :
              LET i == NewlineIndex(lastOp.text, k)
              IN  /\ << calls[i] >> = Exec(driver[1], setCursor(driver[1], 0, k), {}).calls
                  /\ k >= config.lcdRows =>
                        /\ calls[i].value = 128 + <<0, 64, 20, 84>>[config.lcdRows]
                        /\ ~calls[i].registerSelect
                        /\ i = Len(lastOp.text) =>
                              ctl.ac = <<0, 64, 20, 84>>[config.lcdRows]

\* print("A\nB\nC") on a 2-row display: both newlines go to row 1 (0xC0)
C13_Witness ==
    /\ lastOp.name = "print" /\ lastOp.text = <<65, 10, 66, 10, 67>>
    /\ config.lcdRows = 2 /\ ~threw
    /\ CallValues = <<65, 192, 66, 192, 67>>
    /\ ctl.last = [rs |-> 1, value |-> 67]

----------------------------------------------------------------------------
(* Timing and levels of the transfers.                                     *)

\* an operation that ran to its end on the constructed (or just
\* constructed) instance with four working data pins
Completed == lastOp.name # "none" /\ ~threw /\ Len(config.pinsData) >= 4

\* the index in the log of the first rpio call of the operation's i-th
\* transfer: the constructor first opens register-select, enable and every
\* data pin, and its two raw transfers are one call longer (their initWait)
TransferStart(i) ==
    IF lastOp.name = "create"
    THEN 2 + Len(config.pinsData) + <<1, 24, 47, 69, 91, 113>>[i]
    ELSE 22 * (i - 1) + 1

\* one past the last rpio call of the i-th transfer
TransferEnd(i) == IF i = Len(calls) THEN Len(log) + 1 ELSE TransferStart(i + 1)

\* the sleeps of n transfers made with the default waits
DefaultSleeps(n) == [j \in 1..(7 * n) |-> IF j % 7 = 1 THEN 50 ELSE 1]

\* the i-th transfer is a raw init write of the constructor
IsRaw(i) == lastOp.name = "create" /\ i <= 2

\* C14: the two raw init transfers (0x33, 0x32) sleep 4100 and 100
\* microseconds between their high-nibble pulse and their low-nibble write;
\* every other transfer (the composed init instructions, clear, setCursor,
\* every print character) sleeps 50 microseconds before its first pin write
\* and makes no sleep between its nibble phases other than the 1-microsecond
\* holds of the pulse.
C14_TransferTiming ==
    Completed =>
        /\ Sleeps(log) =
              IF lastOp.name = "create"
              THEN <<1, 1, 1, 1, 4100, 1, 1, 1>> \o <<1, 1, 1, 1, 100, 1, 1, 1>>
                   \o DefaultSleeps(4)
              ELSE DefaultSleeps(Len(calls))
        /\ \A i \in 1..Len(calls) :
              LET s == TransferStart(i)
                  dataPin(j) == /\ log[j].op = "write"
                                /\ \E d \in 1..4 : log[j].pin = config.pinsData[d]
              IN  IF IsRaw(i)
                  THEN \* ... pulse ends (s+11), initWait (s+12), low nibble (s+13..)
                       /\ log[s + 10] = [op |-> "write", pin |-> config.pinEnable, v |-> 0]
                       /\ log[s + 12] = [op |-> "usleep", pin |-> "-",
                                         v |-> IF i = 1 THEN 4100 ELSE 100]
                       /\ dataPin(s + 13)
                       /\ TransferEnd(i) = s + 23
                  ELSE /\ log[s] = [op |-> "usleep", pin |-> "-", v |-> 50]
                       /\ log[s + 1].op = "write"
                       /\ \A j \in (s + 2)..(s + 5) : dataPin(j)
                       /\ log[s + 10] = [op |-> "write", pin |-> config.pinEnable, v |-> 0]
                       /\ log[s + 11] = [op |-> "usleep", pin |-> "-", v |-> 1]
                       /\ dataPin(s + 12)
                       /\ TransferEnd(i) = s + 22

\* construction: 4100 us inside 0x33, 100 us inside 0x32, 50 us before 0x0C
C14_Witness ==
    /\ Created /\ Len(calls) = 6 /\ Len(log) = 140
    /\ log[19].v = 4100 /\ log[42].v = 100 /\ log[53].v = 50
    /\ calls[1].initWait = 4100 /\ calls[2].initWait = 100

\* C15: every enable pulse is exactly: enable LOW, sleep 1 us, enable HIGH,
\* sleep 1 us, enable LOW, sleep 1 us; it starts by writing LOW whatever the
\* level of the line, and the enable pin is written nowhere else.
C15_PulseShape ==
    LET E == config.pinEnable
        enWrites == {j \in 1..Len(log) : log[j].op = "write" /\ log[j].pin = E}
        rising == {j \in enWrites : log[j].v = 1}
    IN  (lastOp.name # "none" /\ E # Undef) =>
            /\ \A j \in rising :
                  /\ j >= 3 /\ j + 3 <= Len(log)
                  /\ SubSeq(log, j - 2, j + 3) =
                        << [op |-> "write", pin |-> E, v |-> 0],
                           [op |-> "usleep", pin |-> "-", v |-> 1],
                           [op |-> "write", pin |-> E, v |-> 1],
                           [op |-> "usleep", pin |-> "-", v |-> 1],
                           [op |-> "write", pin |-> E, v |-> 0],
                           [op |-> "usleep", pin |-> "-", v |-> 1] >>
            /\ Cardinality(enWrites) = 3 * Cardinality(rising)
            /\ Completed => Cardinality(rising) = 2 * Len(calls)

\* setCursor: two pulses, each written LOW first on a line already LOW
C15_Witness ==
    /\ lastOp.name = "setCursor" /\ ValidConfig(config) /\ Len(log) = 22
    /\ [j \in 1..6 |-> log[j + 6].v] = <<0, 1, 1, 1, 0, 1>>
    /\ [j \in 1..6 |-> log[j + 16].v] = <<0, 1, 1, 1, 0, 1>>
    /\ log[7].pin = config.pinEnable /\ log[21].pin = config.pinEnable
    /\ pins[config.pinEnable].level = 0

\* C16: every transfer of the constructor, of clear and of setCursor (also
\* those print makes for a newline) is made with register-select LOW; every
\* non-newline character of print is transferred with register-select HIGH
\* and the byte on the bus is the character code modulo 256; in each
\* transfer register-select is written before any data pin.
C16_RegisterSelect ==
    Completed =>
        /\ Len(RsWrites(config, log)) = Len(calls)
        /\ \A i \in 1..Len(calls) :
              LET s == TransferStart(i)
                  isChar == lastOp.name = "print" /\ lastOp.text[i] # 10
              IN  /\ calls[i].registerSelect = isChar
                  /\ log[s].op = "usleep"
                  /\ log[s + 1] = [op |-> "write", pin |-> config.pinRs,
                                   v |-> IF isChar THEN 1 ELSE 0]
                  /\ isChar =>
                        BusWrites(config, SubSeq(log, s, TransferEnd(i) - 1))
                            = TransferPattern(config, CharCodeAt0(lastOp.text[i]) % 256)
        /\ (lastOp.name = "print" /\ Len(lastOp.text) > 0
                /\ lastOp.text[Len(lastOp.text)] # 10) =>
              ctl.last = [rs |-> 1,
                          value |-> CharCodeAt0(lastOp.text[Len(lastOp.text)]) % 256]

\* print of U+0142 (code 322) then a newline: 0x42 with register-select
\* HIGH, then the cursor command with register-select LOW
C16_Witness ==
    /\ lastOp.name = "print" /\ lastOp.text = <<322, 10>> /\ ValidConfig(config)
    /\ config.lcdRows = 2
    /\ RsWrites(config, log) = << [op |-> "write", pin |-> config.pinRs, v |-> 1],
                                  [op |-> "write", pin |-> config.pinRs, v |-> 0] >>
    /\ BusWrites(config, SubSeq(log, 1, 22)) = TransferPattern(config, 66)
    /\ CallValues = <<322, 192>>

\* a character above 0xFF as the last one: the controller receives 0x42
C16_WitnessLowByte ==
    /\ lastOp.name = "print" /\ lastOp.text = <<65, 322>>
    /\ ctl.last = [rs |-> 1, value |-> 66]

----------------------------------------------------------------------------
(* What persists between operations.                                       *)

\* C17: the newline row counter of print is local to one invocation: after
\* any earlier operations, prints with newlines included, the first newline
\* of a print makes the call of setCursor(0, 1); and no public operation
\* changes a field of the driver instance once it is constructed.
C17_RowCounterLocal ==
    [][ /\ (lastOp'.name = "print"
              /\ NewlinesUpTo(lastOp'.text, Len(lastOp'.text)) > 0) =>
              LET i == NewlineIndex(lastOp'.text, 1)
              IN  /\ << calls'[i] >> = Exec(driver[1], setCursor(driver[1], 0, 1), {}).calls
                  /\ config.lcdRows \in 2..4 => calls'[i].value = 192
                  /\ config.lcdRows = 1 => calls'[i].value = 128
        /\ phase = "ready" => driver' = driver
      ]_vars

\* a print whose first newline comes after a character, on 2 rows
C17_Witness ==
    /\ lastOp.name = "print" /\ lastOp.text = <<65, 10>> /\ config.lcdRows = 2
    /\ phase = "ready" /\ driver = << NewInstance(config) >>
    /\ CallValues = <<65, 192>>

----------------------------------------------------------------------------
(* The pins.                                                               *)

\* register-select, enable and the four data pins, in the order configured
SixPins(cfg) == <<cfg.pinRs, cfg.pinEnable>> \o cfg.pinsData

\* C18: the constructor configures register-select, then enable, then the
\* four data pins in index order, each as an output with initial level LOW,
\* before the first digital write; every digital write of every operation
\* targets one of these six configured pins, and no pin is configured or
\* reconfigured after construction.
C18_ConfiguredBeforeUse ==
    (lastOp.name # "none" /\ ValidConfig(config)) =>
        LET six == SixPins(config)
            opens == {j \in 1..Len(log) : log[j].op = "open"}
            writes == {j \in 1..Len(log) : log[j].op = "write"}
        IN  /\ lastOp.name = "create" =>
                  /\ \A j \in opens :
                        j <= 6 /\ log[j] = [op |-> "open", pin |-> six[j], v |-> 0]
                  /\ \A j \in opens : \A m \in 1..j : m \in opens
                  /\ \A w \in writes : opens = 1..6 /\ w > 6
                  /\ ~threw => opens = 1..6
            /\ lastOp.name # "create" => opens = {}
            /\ \A w \in writes :
                  /\ \E k \in 1..6 : log[w].pin = six[k]
                  /\ pins[log[w].pin].mode = "out"
            /\ phase = "ready" =>
                  {p \in DOMAIN pins : pins[p].mode = "out"} = {six[k] : k \in 1..6}

\* construction: six opens in order, then the first write, to register-select
C18_Witness ==
    /\ Created /\ phase = "ready"
    /\ [j \in 1..6 |-> log[j].pin] = <<"18", "22", "11", "12", "15", "16">>
    /\ \A j \in 1..6 : log[j].op = "open" /\ log[j].v = 0
    /\ log[7].op = "usleep" /\ log[8] = [op |-> "write", pin |-> "18", v |-> 0]

\* a later operation writes the configured pins and opens none
C18_WitnessLater ==
    /\ lastOp.name = "print" /\ lastOp.text = <<65>> /\ ValidConfig(config)
    /\ \A j \in 1..Len(log) : log[j].op # "open"
    /\ {log[j].pin : j \in {m \in 1..Len(log) : log[m].op = "write"}}
          = {"18", "22", "11", "12", "15", "16"}

\* C19: register-select and the data pins are written only while the last
\* level written to the enable pin is LOW, and the enable pin is LOW whenever
\* a public operation returns.  (Every operation starts with enable LOW, by
\* the second part; within it, once enable is written HIGH nothing but
\* sleeps happens until it is written LOW again.)
C19_BusStable ==
    (lastOp.name # "none" /\ ValidConfig(config)) =>
        LET E == config.pinEnable
            rising == {j \in 1..Len(log) : log[j] = [op |-> "write", pin |-> E, v |-> 1]}
            firstE == {j \in 1..Len(log) : log[j].pin = E}
        IN  /\ \A j \in rising :
                  \E k \in (j + 1)..Len(log) :
                      /\ log[k] = [op |-> "write", pin |-> E, v |-> 0]
                      /\ \A m \in (j + 1)..(k - 1) : log[m].op = "usleep"
            /\ lastOp.name = "create" =>
                  \A w \in 1..Len(log) :
                      log[w].op = "write" =>
                          \E o \in 1..(w - 1) : log[o] = [op |-> "open", pin |-> E, v |-> 0]
            /\ pins[E].level = 0

\* print("A"): data pins written between the two pulses, enable LOW at the end
C19_Witness ==
    /\ lastOp.name = "print" /\ lastOp.text = <<65>> /\ ValidConfig(config)
    /\ log[11] = [op |-> "write", pin |-> config.pinEnable, v |-> 0]
    /\ log[13].pin = config.pinsData[1]
    /\ log[19] = [op |-> "write", pin |-> config.pinEnable, v |-> 1]
    /\ pins[config.pinEnable].level = 0 /\ ~threw

----------------------------------------------------------------------------
(* The cursor command for large columns.                                   *)

\* C20: for every col >= 0 and row in 0..configuredRows-1 the byte setCursor
\* drives on the data pins (the low 8 bits of 0x80 | (col + offset)) has bit
\* 7 set and its low 7 bits equal (col + offset) mod 128: setCursor always
\* sends a set-DDRAM-address instruction, also when col + offset >= 128.
C20_AlwaysSetDdram ==
    (/\ lastOp.name = "setCursor"
     /\ lastOp.row \in 0..(config.lcdRows - 1) /\ lastOp.row \in 0..3
     /\ lastOp.col >= 0) =>
        LET addr == lastOp.col + <<0, 64, 20, 84>>[lastOp.row + 1]
            bus == BusWrites(config, log)
        IN  /\ ~threw /\ Len(calls) = 1
            /\ bus = TransferPattern(config, 128 + (addr % 128))
            /\ bus[4] = [op |-> "write", pin |-> config.pinsData[4], v |-> 1]
            /\ ctl.last = [rs |-> 0, value |-> 128 + (addr % 128)]
            /\ ctl.ac = addr % 128

\* column 44 of row 3: 44 + 0x54 = 128, the byte is 0x80, address 0
C20_Witness ==
    /\ lastOp.name = "setCursor" /\ config.lcdRows = 4
    /\ lastOp.col = 44 /\ lastOp.row = 3
    /\ CallValues = <<128>>
    /\ ctl.last = [rs |-> 0, value |-> 128] /\ ctl.ac = 0

\* column 300 of row 1: 0x80 | 364 = 0x1EC, the byte is 0xEC, address 108
C20_WitnessAboveByte ==
    /\ lastOp.name = "setCursor" /\ config.lcdRows = 2
    /\ lastOp.col = 300 /\ lastOp.row = 1
    /\ CallValues = <<492>>
    /\ ctl.last = [rs |-> 0, value |-> 236] /\ ctl.ac = 108

====
